---- MODULE Spec2Model ----
(***************************************************************************)
(* Model of the RAM encoder of hwcodec (cpp/ffmpeg_ram/ffmpeg_ram_encode). *)
(*                                                                         *)
(* The codec engine (libavcodec/libavutil) is an external collaborator:    *)
(* every result it hands back (an allocation that fails, the line sizes it *)
(* chooses, the number of packets it has ready, its error codes) is an     *)
(* input of the handler that calls it and is drawn from a small set.       *)
(* Arrays of AV_NUM_DATA_POINTERS entries are modelled by their first      *)
(* three entries, the only ones the two supported formats use.             *)
(***************************************************************************)
EXTENDS Integers, Sequences, FiniteSets, TLC

\* ------------------------------------------------------------------ bounds
MaxStride == 2
MaxFrameStride == 1
MaxHeight == 2
MaxShort == 1
MaxTs == 2
MaxDelay == 1

\* ------------------------------------------------------- program constants
AVERROR_EAGAIN == -11
AVERROR_EINVAL == -22
\* frames_ctx->initial_pool_size as set_hwframe_ctx sets it.
initial_pool_size == 1

PixFmts == {"YUV420P", "NV12", "RGB24"}
Strides == 1 .. MaxStride
FrameStrides == 1 .. MaxFrameStride
Heights == 1 .. MaxHeight

\* Line sizes of a format: one entry per plane, 0 beyond the plane count.
\* Linesizes is every combination, for the layout function called on its
\* own; FrameLinesizes are those the engine's allocator chooses for the
\* working frame of a session, which gives the two chroma planes of the
\* planar format the same line size.
FrameLinesizes(pix_fmt) ==
    CASE pix_fmt = "YUV420P" -> {<<a, b, b>> : a \in FrameStrides, b \in FrameStrides}
      [] pix_fmt = "NV12" -> {<<a, b, 0>> : a \in FrameStrides, b \in FrameStrides}
      [] OTHER -> {<<a, 0, 0>> : a \in FrameStrides}
Linesizes(pix_fmt) ==
    CASE pix_fmt = "YUV420P" -> {<<a, b, c>> : a \in Strides, b \in Strides, c \in Strides}
      [] pix_fmt = "NV12" -> {<<a, b, 0>> : a \in Strides, b \in Strides}
      [] OTHER -> {<<a, 0, 0>> : a \in Strides}

\* --------------------------------------------------------------- layout
\* calculate_offset_length as a bug would have it: the chroma planes sized by
\* full height.
calculate_offset_length_fullheight(pix_fmt, height, linesize, offset, length) ==
    CASE pix_fmt = "YUV420P" ->
           LET o0 == linesize[1] * height
               o1 == o0 + linesize[2] * height
           IN  [ret |-> 0, offset |-> <<o0, o1, offset[3]>>,
                length |-> o1 + linesize[3] * height]
      [] pix_fmt = "NV12" ->
           LET o0 == linesize[1] * height
           IN  [ret |-> 0, offset |-> <<o0, offset[2], offset[3]>>,
                length |-> o0 + linesize[2] * height]
      [] OTHER -> [ret |-> -1, offset |-> offset, length |-> length]

\* calculate_offset_length: offset and length are the caller's arrays as they
\* are before the call; the result holds them as they are after it.
calculate_offset_length(pix_fmt, height, linesize, offset, length) ==
    CASE pix_fmt = "YUV420P" ->
           LET o0 == linesize[1] * height
               o1 == o0 + (linesize[2] * height) \div 2
           IN  [ret |-> 0, offset |-> <<o0, o1, offset[3]>>,
                length |-> o1 + (linesize[3] * height) \div 2]
      [] pix_fmt = "NV12" ->
           LET o0 == linesize[1] * height
           IN  [ret |-> 0, offset |-> <<o0, offset[2], offset[3]>>,
                length |-> o0 + (linesize[2] * height) \div 2]
      [] OTHER -> [ret |-> -1, offset |-> offset, length |-> length]

\* The copy loop of lines 75-79: entries are copied up to the first zero.
RECURSIVE CopyOffsets(_, _, _)
CopyOffsets(ioffset, offset, i) ==
    IF i > Len(ioffset) \/ ioffset[i] = 0 THEN offset
    ELSE CopyOffsets(ioffset, [offset EXCEPT ![i] = ioffset[i]], i + 1)

\* What the engine does for the frame the layout is computed on. The layout
\* is computed for every combination of line sizes.
LayoutEngine(pix_fmt) ==
    [alloc : BOOLEAN, buffer : {AVERROR_EINVAL}, linesize : {<<0, 0, 0>>}]
      \cup [alloc : {TRUE}, buffer : {0}, linesize : Linesizes(pix_fmt)]

\* The caller's output arguments: has* tells whether the pointer is non-null,
\* the others hold what the pointed-to memory holds.
Unwritten == <<-1, -1, -1>>
LayoutOut ==
    [hasLinesize : BOOLEAN, hasOffset : BOOLEAN, hasLength : BOOLEAN,
     linesize : {Unwritten}, offset : {Unwritten}, length : {-1}]

\* ffmpeg_ram_get_linesize_offset_length. width and align reach only the
\* engine's allocator; eng is what the allocator did with them.
ffmpeg_ram_get_linesize_offset_length(pix_fmt, height, eng, out) ==
    IF ~eng.alloc THEN [ret |-> -1, out |-> out]
    ELSE IF eng.buffer < 0 THEN [ret |-> eng.buffer, out |-> out]
    ELSE
      LET out1 == IF out.hasLinesize THEN [out EXCEPT !.linesize = eng.linesize]
                  ELSE out
          calc == IF out.hasOffset \/ out.hasLength
                  THEN calculate_offset_length(pix_fmt, height, eng.linesize,
                                               <<0, 0, 0>>, 0)
                  ELSE [ret |-> 0, offset |-> <<0, 0, 0>>, length |-> 0]
      IN  IF calc.ret < 0 THEN [ret |-> calc.ret, out |-> out1]
          ELSE
            LET out2 == IF out.hasOffset
                        THEN [out1 EXCEPT !.offset = CopyOffsets(calc.offset, @, 1)]
                        ELSE out1
                out3 == IF out.hasLength THEN [out2 EXCEPT !.length = calc.length]
                        ELSE out2
            IN  [ret |-> 0, out |-> out3]

\* ------------------------------------------------------------- session
\* Codec names, as the sequence of their parts; find is std::string::find
\* compared with npos.
Names == {<<"h264", "vaapi">>, <<"h264", "nvenc">>, <<"h264", "amf">>, <<"h264", "qsv">>}
find(name, part) == \E i \in DOMAIN name : name[i] = part

\* Resource events of a session object: <<"acq", r>>, <<"rel", r>>,
\* <<"init", "hw_frames_ref">> (av_hwframe_ctx_init succeeded) and
\* <<"open", "c_">>, in the order they happen.
Acq(tr, r) == Append(tr, <<"acq", r>>)
Rel(tr, r) == Append(tr, <<"rel", r>>)
Count(tr, ev) == Cardinality({i \in DOMAIN tr : tr[i] = ev})

\* The fields of FFmpegRamEncoder with their default member initialisers.
\* A pointer is "NULL" or "set"; the fields of the objects c_, frame_, pkt_
\* and hw_frame_ point to are flattened into the record (c_opened,
\* c_hw_frames_ctx, c_pool_size, c_bit_rate, frame_buf, frame_linesize, frame_data,
\* pkt_data, hw_frame_buf).
NoEncoder ==
    [name_ |-> <<>>, pixfmt_ |-> "NV12", height_ |-> 0, bit_rate_ |-> 0,
     hw_device_type_ |-> "NONE", hw_device_ctx_ |-> "NULL",
     c_ |-> "NULL", c_opened |-> FALSE, c_hw_frames_ctx |-> FALSE, c_pool_size |-> 0,
     c_bit_rate |-> 0,
     frame_ |-> "NULL", frame_buf |-> FALSE, frame_linesize |-> <<0, 0, 0>>,
     frame_data |-> "none",
     pkt_ |-> "NULL", pkt_data |-> FALSE,
     hw_frame_ |-> "NULL", hw_frame_buf |-> FALSE,
     first_ms_ |-> 0, offset_ |-> <<0, 0, 0>>]

\* The constructor. win32 is the build (_WIN32 defined or not).
Constructor(name, win32, pixfmt, height, bit_rate) ==
    [NoEncoder EXCEPT
       !.name_ = name, !.pixfmt_ = pixfmt, !.height_ = height,
       !.bit_rate_ = bit_rate,
       !.hw_device_type_ = IF find(name, "vaapi") THEN "VAAPI"
                           ELSE IF find(name, "nvenc") /\ win32 THEN "D3D11VA"
                           ELSE "NONE"]

\* set_hwframe_ctx as a bug would have it: the pool reference is not dropped
\* when av_hwframe_ctx_init fails.
set_hwframe_ctx_leak(e, tr, fail) ==
    IF fail = "hwframe_ctx_alloc" THEN [e |-> e, tr |-> tr, err |-> -1]
    ELSE
      LET tr1 == Acq(tr, "hw_frames_ref")
          tr2 == Append(tr1, <<"init", "hw_frames_ref">>)
      IN  IF fail = "hwframe_ctx_init"
          THEN [e |-> e, tr |-> tr1, err |-> AVERROR_EINVAL]
          ELSE IF fail = "buffer_ref"
          THEN [e |-> e, tr |-> Rel(tr2, "hw_frames_ref"), err |-> -1]
          ELSE [e |-> [e EXCEPT !.c_hw_frames_ctx = TRUE,
                                !.c_pool_size = initial_pool_size],
                tr |-> Rel(Acq(tr2, "c_hw_frames_ctx"), "hw_frames_ref"),
                err |-> 0]

\* set_hwframe_ctx as a bug would have it: err is not set when av_buffer_ref
\* returns NULL.
set_hwframe_ctx_unbound(e, tr, fail) ==
    IF fail = "hwframe_ctx_alloc" THEN [e |-> e, tr |-> tr, err |-> -1]
    ELSE
      LET tr1 == Acq(tr, "hw_frames_ref")
          tr2 == Append(tr1, <<"init", "hw_frames_ref">>)
      IN  IF fail = "hwframe_ctx_init"
          THEN [e |-> e, tr |-> Rel(tr1, "hw_frames_ref"), err |-> AVERROR_EINVAL]
          ELSE IF fail = "buffer_ref"
          THEN [e |-> e, tr |-> Rel(tr2, "hw_frames_ref"), err |-> 0]
          ELSE [e |-> [e EXCEPT !.c_hw_frames_ctx = TRUE,
                                !.c_pool_size = initial_pool_size],
                tr |-> Rel(Acq(tr2, "c_hw_frames_ctx"), "hw_frames_ref"),
                err |-> 0]

\* set_hwframe_ctx. fail names the engine call that fails, if any.
set_hwframe_ctx(e, tr, fail) ==
    IF fail = "hwframe_ctx_alloc" THEN [e |-> e, tr |-> tr, err |-> -1]
    ELSE
      LET tr1 == Acq(tr, "hw_frames_ref")
          tr2 == Append(tr1, <<"init", "hw_frames_ref">>)
      IN  IF fail = "hwframe_ctx_init"
          THEN [e |-> e, tr |-> Rel(tr1, "hw_frames_ref"), err |-> AVERROR_EINVAL]
          ELSE IF fail = "buffer_ref"
          THEN [e |-> e, tr |-> Rel(tr2, "hw_frames_ref"), err |-> -1]
          ELSE [e |-> [e EXCEPT !.c_hw_frames_ctx = TRUE,
                                !.c_pool_size = initial_pool_size],
                tr |-> Rel(Acq(tr2, "c_hw_frames_ctx"), "hw_frames_ref"),
                err |-> 0]

\* The engine calls of init in the order init makes them; the hardware ones
\* are made only by a hardware-backed session.
HwSteps ==
    <<"hwdevice_ctx_create", "hwframe_ctx_alloc", "hwframe_ctx_init", "buffer_ref",
      "hw_frame_alloc", "hwframe_get_buffer", "hw_frames_ctx_null">>
InitSteps(e) ==
    <<"find_encoder", "alloc_context3">>
      \o (IF e.hw_device_type_ # "NONE" THEN HwSteps ELSE <<>>)
      \o <<"frame_alloc", "frame_get_buffer", "packet_alloc", "set_lantency_free",
           "open2", "layout_alloc", "layout_get_buffer">>
Range(s) == {s[i] : i \in DOMAIN s}

\* The hardware part of init (lines 169-204).
init_hw(e, tr, fail) ==
    IF fail = "hwdevice_ctx_create" THEN [e |-> e, tr |-> tr, ok |-> FALSE]
    ELSE
      LET e1 == [e EXCEPT !.hw_device_ctx_ = "set"]
          h == set_hwframe_ctx(e1, Acq(tr, "hw_device_ctx_"), fail)
      IN  IF h.err # 0 THEN [e |-> h.e, tr |-> h.tr, ok |-> FALSE]
          ELSE IF fail = "hw_frame_alloc" THEN [e |-> h.e, tr |-> h.tr, ok |-> FALSE]
          ELSE
            LET e2 == [h.e EXCEPT !.hw_frame_ = "set"]
                tr2 == Acq(h.tr, "hw_frame_")
            IN  IF fail = "hwframe_get_buffer"
                THEN [e |-> e2, tr |-> tr2, ok |-> FALSE]
                ELSE [e |-> [e2 EXCEPT !.hw_frame_buf = TRUE],
                      tr |-> Acq(tr2, "hw_frame_buf"),
                      ok |-> fail # "hw_frames_ctx_null"]

\* The rest of init, from the working frame on (lines 206-280). ls is the
\* line sizes the engine's allocator chooses; out is the caller's layout
\* arguments.
init_sw(e, tr, fail, ls, out) ==
    IF fail = "frame_alloc" THEN [e |-> e, tr |-> tr, ok |-> FALSE, out |-> out]
    ELSE
      LET e1 == [e EXCEPT !.frame_ = "set"]
          tr1 == Acq(tr, "frame_")
      IN  IF fail = "frame_get_buffer"
          THEN [e |-> e1, tr |-> tr1, ok |-> FALSE, out |-> out]
          ELSE
            LET e2 == [e1 EXCEPT !.frame_buf = TRUE, !.frame_linesize = ls,
                                 !.frame_data = "own"]
                tr2 == Acq(tr1, "frame_buf")
            IN  IF fail = "packet_alloc"
                THEN [e |-> e2, tr |-> tr2, ok |-> FALSE, out |-> out]
                ELSE
                  LET e3 == [e2 EXCEPT !.pkt_ = "set",
                                       !.c_bit_rate = IF e.bit_rate_ >= 1000
                                                      THEN e.bit_rate_ ELSE @]
                      tr3 == Acq(tr2, "pkt_")
                  IN  IF fail \in {"set_lantency_free", "open2"}
                      THEN [e |-> e3, tr |-> tr3, ok |-> FALSE, out |-> out]
                      ELSE
                        LET e4 == [e3 EXCEPT !.c_opened = TRUE, !.first_ms_ = 0]
                            tr4 == Append(tr3, <<"open", "c_">>)
                            eng == [alloc |-> fail # "layout_alloc",
                                    buffer |-> IF fail = "layout_get_buffer"
                                               THEN AVERROR_EINVAL ELSE 0,
                                    linesize |-> ls]
                            r == ffmpeg_ram_get_linesize_offset_length(
                                   e.pixfmt_, e.height_, eng,
                                   [hasLinesize |-> FALSE, hasOffset |-> TRUE,
                                    hasLength |-> TRUE, linesize |-> out.linesize,
                                    offset |-> e4.offset_, length |-> out.length])
                            e5 == [e4 EXCEPT !.offset_ = r.out.offset]
                        IN  IF r.ret # 0
                            THEN [e |-> e5, tr |-> tr4, ok |-> FALSE,
                                  out |-> [out EXCEPT !.length = r.out.length]]
                            ELSE [e |-> e5, tr |-> tr4, ok |-> TRUE,
                                  out |-> [linesize |-> e5.frame_linesize,
                                           offset |-> e5.offset_,
                                           length |-> r.out.length]]

\* init. fail names the engine call that fails ("none": none does).
init(e, tr, fail, ls, out) ==
    IF fail = "find_encoder" THEN [e |-> e, tr |-> tr, ok |-> FALSE, out |-> out]
    ELSE IF fail = "alloc_context3" THEN [e |-> e, tr |-> tr, ok |-> FALSE, out |-> out]
    ELSE
      LET e1 == [e EXCEPT !.c_ = "set"]
          tr1 == Acq(tr, "c_")
          h == IF e.hw_device_type_ # "NONE" THEN init_hw(e1, tr1, fail)
               ELSE [e |-> e1, tr |-> tr1, ok |-> TRUE]
      IN  IF ~h.ok THEN [e |-> h.e, tr |-> h.tr, ok |-> FALSE, out |-> out]
          ELSE init_sw(h.e, h.tr, fail, ls, out)

\* free_encoder: each member is released if it is non-null, and nulled.
\* av_frame_free releases the frame's buffers with the frame and
\* avcodec_free_context the context's reference to the frame pool.
free_pkt(e, tr) ==
    IF e.pkt_ # "NULL"
    THEN [e |-> [e EXCEPT !.pkt_ = "NULL", !.pkt_data = FALSE], tr |-> Rel(tr, "pkt_")]
    ELSE [e |-> e, tr |-> tr]
free_frame(e, tr) ==
    IF e.frame_ # "NULL"
    THEN [e |-> [e EXCEPT !.frame_ = "NULL", !.frame_buf = FALSE, !.frame_data = "none"],
          tr |-> Rel(IF e.frame_buf THEN Rel(tr, "frame_buf") ELSE tr, "frame_")]
    ELSE [e |-> e, tr |-> tr]
free_hw_frame(e, tr) ==
    IF e.hw_frame_ # "NULL"
    THEN [e |-> [e EXCEPT !.hw_frame_ = "NULL", !.hw_frame_buf = FALSE],
          tr |-> Rel(IF e.hw_frame_buf THEN Rel(tr, "hw_frame_buf") ELSE tr, "hw_frame_")]
    ELSE [e |-> e, tr |-> tr]
free_hw_device(e, tr) ==
    IF e.hw_device_ctx_ # "NULL"
    THEN [e |-> [e EXCEPT !.hw_device_ctx_ = "NULL"], tr |-> Rel(tr, "hw_device_ctx_")]
    ELSE [e |-> e, tr |-> tr]
free_context(e, tr) ==
    IF e.c_ # "NULL"
    THEN [e |-> [e EXCEPT !.c_ = "NULL", !.c_opened = FALSE, !.c_hw_frames_ctx = FALSE,
                      !.c_pool_size = 0],
          tr |-> Rel(IF e.c_hw_frames_ctx THEN Rel(tr, "c_hw_frames_ctx") ELSE tr, "c_")]
    ELSE [e |-> e, tr |-> tr]
\* free_encoder as a bug would have it: the engine context is released
\* first and the hardware frame is left alone.
free_encoder_ctxfirst(e, tr) ==
    LET a == free_context(e, tr)
        b == free_pkt(a.e, a.tr)
        c == free_frame(b.e, b.tr)
    IN  free_hw_device(c.e, c.tr)
free_encoder(e, tr) ==
    LET a == free_pkt(e, tr)
        b == free_frame(a.e, a.tr)
        c == free_hw_frame(b.e, b.tr)
        d == free_hw_device(c.e, c.tr)
    IN  free_context(d.e, d.tr)

\* ffmpeg_ram_new_encoder as a bug would have it: the result of init is not
\* looked at.
ffmpeg_ram_new_encoder_unchecked(name, win32, pixfmt, height, bit_rate, fail, ls, out) ==
    IF fail = "new"
    THEN [handle |-> "null", e |-> NoEncoder, tr |-> <<>>, out |-> out]
    ELSE
      LET e0 == Constructor(name, win32, pixfmt, height, bit_rate)
          i == init(e0, Acq(<<>>, "session"), fail, ls, out)
      IN  [handle |-> "live", e |-> i.e, tr |-> i.tr, out |-> i.out]

\* ffmpeg_ram_new_encoder. fail = "new" is operator new throwing.
ffmpeg_ram_new_encoder(name, win32, pixfmt, height, bit_rate, fail, ls, out) ==
    IF fail = "new"
    THEN [handle |-> "null", e |-> NoEncoder, tr |-> <<>>, out |-> out]
    ELSE
      LET e0 == Constructor(name, win32, pixfmt, height, bit_rate)
          i == init(e0, Acq(<<>>, "session"), fail, ls, out)
      IN  IF i.ok THEN [handle |-> "live", e |-> i.e, tr |-> i.tr, out |-> i.out]
          ELSE LET f == free_encoder(i.e, i.tr)
               IN  [handle |-> "null", e |-> NoEncoder, tr |-> Rel(f.tr, "session"),
                    out |-> i.out]

\* -------------------------------------------------------------- encode
\* fill_frame on the working frame (frame->format and frame->height are the
\* session's pixfmt_ and height_, set in init).
fill_frame(e, data_length) ==
    LET ls == e.frame_linesize
    IN  CASE e.pixfmt_ = "NV12" ->
               IF data_length < e.height_ * (ls[1] + ls[2] \div 2)
               THEN [e |-> e, ret |-> -1]
               ELSE [e |-> [e EXCEPT !.frame_data = "caller"], ret |-> 0]
          [] e.pixfmt_ = "YUV420P" ->
               IF data_length < e.height_ * (ls[1] + ls[2] \div 2 + ls[3] \div 2)
               THEN [e |-> e, ret |-> -1]
               ELSE [e |-> [e EXCEPT !.frame_data = "caller"], ret |-> 0]
          [] OTHER -> [e |-> e, ret |-> -1]

\* The drain loop's body as a bug would have it: first_ms_ is never latched.
RECURSIVE Drain_nolatch(_, _, _, _)
Drain_nolatch(first_ms, ms, srcs, cbs) ==
    IF srcs = <<>> THEN [first_ms |-> first_ms, cbs |-> cbs]
    ELSE Drain_nolatch(first_ms, ms, Tail(srcs),
                       Append(cbs, [pts |-> ms - first_ms, src |-> Head(srcs)]))

\* The drain loop's body for the packets the engine hands out in one call:
\* srcs are the timestamps of the frames the packets were encoded from.
RECURSIVE Drain(_, _, _, _)
Drain(first_ms, ms, srcs, cbs) ==
    IF srcs = <<>> THEN [first_ms |-> first_ms, cbs |-> cbs]
    ELSE LET f == IF first_ms = 0 THEN ms ELSE first_ms
         IN  Drain(f, ms, Tail(srcs), Append(cbs, [pts |-> ms - f, src |-> Head(srcs)]))

\* The drain loop's calls as a bug would have them: every packet is pulled
\* before the first callback is made.
DrainEvents_batch(cbs) ==
    [i \in 1 .. Len(cbs) |-> <<"receive_packet", 0>>]
      \o [i \in 1 .. Len(cbs) |-> <<"callback", cbs[i].pts>>]

\* The calls the drain loop makes for those packets, each with its result
\* (the callback's is the pts it is handed).
RECURSIVE DrainEvents(_)
DrainEvents(cbs) ==
    IF cbs = <<>> THEN <<>>
    ELSE <<<<"receive_packet", 0>>, <<"callback", Head(cbs).pts>>>>
           \o DrainEvents(Tail(cbs))

\* What the engine does in one encode call: eo.mw is the result of
\* av_frame_make_writable, eo.transfer of av_hwframe_transfer_data, eo.send of
\* avcodec_send_frame; eo.k is the number of packets avcodec_receive_packet
\* hands out before it returns the negative eo.term: at most one for the
\* frame sent and one for each of the at most MaxDelay frames the engine
\* still held. A call that fails ends the handler, so the results of the
\* later calls are listed only after the successes of the earlier ones.
EngineErrors == {AVERROR_EINVAL}
EngineRun(mw, transfer, send, k, term) ==
    [mw |-> mw, transfer |-> transfer, send |-> send, k |-> k, term |-> term]
EncodeEngine ==
    {EngineRun(x, 0, 0, 0, AVERROR_EAGAIN) : x \in EngineErrors}
      \cup {EngineRun(0, x, 0, 0, AVERROR_EAGAIN) : x \in EngineErrors}
      \cup {EngineRun(0, 0, x, 0, AVERROR_EAGAIN) : x \in {AVERROR_EAGAIN} \cup EngineErrors}
      \cup {EngineRun(0, 0, 0, k, x) : k \in 0 .. MaxDelay + 1,
                                       x \in {AVERROR_EAGAIN} \cup EngineErrors}

\* For each of the n calls of avcodec_receive_packet(c_, pkt_) the drain loop
\* makes, whether pkt_ holds a payload when the call is made: the first call
\* finds pkt_ as the session left it, every later one finds the packet
\* received just before, which the loop has handed to the callback and not
\* released (lines 367-379 hold no av_packet_unref).
ReceiveHeld(pkt_data, n) == [j \in 1 .. n |-> IF j = 1 THEN pkt_data ELSE TRUE]

\* do_encode as a bug would have it: 0 is returned whether or not a packet
\* was encoded.
do_encode_always0(e, ms, eo, pend, ev) ==
    IF eo.send < 0
    THEN [e |-> e, ret |-> eo.send, cbs |-> <<>>,
          ev |-> Append(ev, <<"send_frame", eo.send>>), pend |-> pend,
          held |-> <<>>]
    ELSE
      LET queued == Append(pend, ms)
          d == Drain(e.first_ms_, ms, SubSeq(queued, 1, eo.k), <<>>)
      IN  [e |-> [e EXCEPT !.first_ms_ = d.first_ms, !.pkt_data = FALSE],
           ret |-> 0,
           cbs |-> d.cbs,
           ev |-> Append(ev, <<"send_frame", eo.send>>) \o DrainEvents(d.cbs)
                    \o <<<<"receive_packet", eo.term>>, <<"packet_unref", 0>>>>,
           pend |-> SubSeq(queued, eo.k + 1, Len(queued)),
           held |-> ReceiveHeld(e.pkt_data, eo.k + 1)]

\* do_encode as a bug would have it: the result of the last receive call is
\* returned, EAGAIN counting as success.
do_encode_lastret(e, ms, eo, pend, ev) ==
    IF eo.send < 0
    THEN [e |-> e, ret |-> eo.send, cbs |-> <<>>,
          ev |-> Append(ev, <<"send_frame", eo.send>>), pend |-> pend,
          held |-> <<>>]
    ELSE
      LET queued == Append(pend, ms)
          d == Drain(e.first_ms_, ms, SubSeq(queued, 1, eo.k), <<>>)
      IN  [e |-> [e EXCEPT !.first_ms_ = d.first_ms, !.pkt_data = FALSE],
           ret |-> IF eo.term = AVERROR_EAGAIN THEN 0 ELSE eo.term,
           cbs |-> d.cbs,
           ev |-> Append(ev, <<"send_frame", eo.send>>) \o DrainEvents(d.cbs)
                    \o <<<<"receive_packet", eo.term>>, <<"packet_unref", 0>>>>,
           pend |-> SubSeq(queued, eo.k + 1, Len(queued)),
           held |-> ReceiveHeld(e.pkt_data, eo.k + 1)]

\* do_encode as a bug would have it: the packet is not released at _exit.
do_encode_nounref(e, ms, eo, pend, ev) ==
    IF eo.send < 0
    THEN [e |-> e, ret |-> eo.send, cbs |-> <<>>,
          ev |-> Append(ev, <<"send_frame", eo.send>>), pend |-> pend,
          held |-> <<>>]
    ELSE
      LET queued == Append(pend, ms)
          d == Drain(e.first_ms_, ms, SubSeq(queued, 1, eo.k), <<>>)
          encoded == eo.k > 0
      IN  [e |-> [e EXCEPT !.first_ms_ = d.first_ms, !.pkt_data = encoded],
           ret |-> IF encoded THEN 0 ELSE -1,
           cbs |-> d.cbs,
           ev |-> Append(ev, <<"send_frame", eo.send>>) \o DrainEvents(d.cbs)
                    \o <<<<"receive_packet", eo.term>>>>,
           pend |-> SubSeq(queued, eo.k + 1, Len(queued)),
           held |-> ReceiveHeld(e.pkt_data, eo.k + 1)]

\* do_encode. pend holds the timestamps of the frames the engine has accepted
\* and not yet handed out as packets, oldest first. ev lists the calls made,
\* each with its result.
do_encode(e, ms, eo, pend, ev) ==
    IF eo.send < 0
    THEN [e |-> e, ret |-> eo.send, cbs |-> <<>>,
          ev |-> Append(ev, <<"send_frame", eo.send>>), pend |-> pend,
          held |-> <<>>]
    ELSE
      LET queued == Append(pend, ms)
          d == Drain(e.first_ms_, ms, SubSeq(queued, 1, eo.k), <<>>)
          encoded == eo.k > 0
      IN  [e |-> [e EXCEPT !.first_ms_ = d.first_ms, !.pkt_data = FALSE],
           ret |-> IF encoded THEN 0 ELSE -1,
           cbs |-> d.cbs,
           ev |-> Append(ev, <<"send_frame", eo.send>>) \o DrainEvents(d.cbs)
                    \o <<<<"receive_packet", eo.term>>, <<"packet_unref", 0>>>>,
           pend |-> SubSeq(queued, eo.k + 1, Len(queued)),
           held |-> ReceiveHeld(e.pkt_data, eo.k + 1)]

\* encode.
encode(e, length, ms, eo, pend) ==
    IF eo.mw # 0
    THEN [e |-> e, ret |-> eo.mw, cbs |-> <<>>, ev |-> <<<<"make_writable", eo.mw>>>>,
          pend |-> pend, held |-> <<>>]
    ELSE
      LET f == fill_frame(e, length)
          ev1 == <<<<"make_writable", 0>>, <<"fill_frame", f.ret>>>>
      IN  IF f.ret # 0
          THEN [e |-> f.e, ret |-> f.ret, cbs |-> <<>>, ev |-> ev1, pend |-> pend,
                held |-> <<>>]
          ELSE IF e.hw_device_type_ # "NONE"
          THEN IF eo.transfer < 0
               THEN [e |-> f.e, ret |-> eo.transfer, cbs |-> <<>>,
                     ev |-> Append(ev1, <<"transfer_data", eo.transfer>>),
                     pend |-> pend, held |-> <<>>]
               ELSE do_encode(f.e, ms, eo, pend,
                              Append(ev1, <<"transfer_data", eo.transfer>>))
          ELSE do_encode(f.e, ms, eo, pend, ev1)

\* set_bitrate as a bug would have it: the bitrate is stored before the codec
\* family is looked at.
set_bitrate_early(e, bitrate) ==
    IF find(e.name_, "nvenc") \/ find(e.name_, "amf")
    THEN [e |-> [e EXCEPT !.c_bit_rate = bitrate], ret |-> 0]
    ELSE [e |-> [e EXCEPT !.c_bit_rate = bitrate], ret |-> -1]

\* set_bitrate.
set_bitrate(e, bitrate) ==
    IF find(e.name_, "nvenc") \/ find(e.name_, "amf")
    THEN [e |-> [e EXCEPT !.c_bit_rate = bitrate], ret |-> 0]
    ELSE [e |-> e, ret |-> -1]

\* ----------------------------------------------------------- the system
\* handle is the caller's session handle: "null", "live", or "dangling" once
\* ffmpeg_ram_free_encoder has deleted the object it points to. enc holds the
\* object's fields, rtrace its resource events, reported the layout
\* createSession handed back, pending the engine's queue. fed is the last
\* timestamp passed to encode (-1: none yet): the caller passes the capture
\* times of its frames, which increase strictly. lastPts is the pts of the
\* last packet delivered (-1: none yet). call describes the last call made,
\* ub tells whether a deleted object has been used and alive whether the
\* caller's process is still running (a use of a deleted object can kill
\* it). call.fail is the engine call that
\* failed in createSession, call.len the length passed to encode, call.cbs
\* the callbacks encode made, call.ev the engine calls it made and call.held,
\* for each avcodec_receive_packet call, whether pkt_ held a payload then.
\* call.deleted tells that the call ran delete on an object that had been
\* deleted before.
VARIABLES handle, enc, rtrace, reported, pending, fed, lastPts, call, ub, alive,
          lay
sessVars == <<handle, enc, rtrace, reported, pending, fed, lastPts, call, ub, alive>>
vars == <<handle, enc, rtrace, reported, pending, fed, lastPts, call, ub, alive, lay>>

CreateBitRates == {1000}
SetBitRates == {2000}
Timestamps == 0 .. MaxTs
\* The buffer lengths a caller passes: the length createSession reported, or
\* up to MaxShort bytes less.
Lengths(total) == {n \in total - MaxShort .. total : n >= 0}
NoOut == [linesize |-> Unwritten, offset |-> Unwritten, length |-> -1]
NoCall ==
    [op |-> "none", ret |-> 0, fail |-> "none", len |-> 0, cbs |-> <<>>, ev |-> <<>>,
     held |-> <<>>, deleted |-> FALSE]

NoLayoutCall ==
    [op |-> "none", pix_fmt |-> "NV12", height |-> 1,
     eng |-> [alloc |-> TRUE, buffer |-> 0, linesize |-> <<1, 1, 0>>],
     before |-> [hasLinesize |-> FALSE, hasOffset |-> FALSE, hasLength |-> FALSE,
                 linesize |-> Unwritten, offset |-> Unwritten, length |-> -1],
     ret |-> 0,
     after |-> [hasLinesize |-> FALSE, hasOffset |-> FALSE, hasLength |-> FALSE,
                linesize |-> Unwritten, offset |-> Unwritten, length |-> -1]]

InitSession ==
    /\ handle = "null"
    /\ enc = NoEncoder
    /\ rtrace = <<>>
    /\ reported = NoOut
    /\ pending = <<>>
    /\ fed = -1
    /\ lastPts = -1
    /\ call = NoCall
    /\ ub = FALSE
    /\ alive = TRUE

Init == InitSession /\ lay = NoLayoutCall

\* createSession: ffmpeg_ram_new_encoder called by a caller that holds no
\* session. The engine's results are fail (the engine call that fails) and ls.
CreateSession ==
    /\ handle = "null"
    /\ \E name \in Names, win32 \in BOOLEAN, pixfmt \in PixFmts, height \in Heights,
          bit_rate \in CreateBitRates :
         \E ls \in FrameLinesizes(pixfmt),
            fail \in {"none", "new"}
                       \cup Range(InitSteps(Constructor(name, win32, pixfmt, height,
                                                        bit_rate))) :
           \E r \in {ffmpeg_ram_new_encoder(name, win32, pixfmt, height, bit_rate,
                                             fail, ls, NoOut)} :
               /\ handle' = r.handle
               /\ enc' = r.e
               /\ rtrace' = r.tr
               /\ reported' = r.out
               /\ call' = [NoCall EXCEPT !.op = "create", !.fail = fail,
                                         !.ret = IF r.handle = "live" THEN 0 ELSE -1]
    /\ pending' = <<>>
    /\ fed' = -1
    /\ lastPts' = -1
    /\ UNCHANGED <<ub, alive, lay>>

\* encode: ffmpeg_ram_encode on a live session. The engine hands out no more
\* packets than it holds frames, and holds at most MaxDelay frames when the
\* call returns; a call that fails before the engine has accepted the frame
\* leaves the engine's queue as it is.
Encode ==
    /\ handle = "live"
    /\ \E ms \in {t \in Timestamps : t > fed},
          eo \in {x \in EncodeEngine : x.k <= Len(pending) + 1},
          length \in Lengths(reported.length) :
         /\ \E r \in {encode(enc, length, ms, eo, pending)} :
                /\ Len(r.pend) <= MaxDelay
                /\ enc' = r.e
                /\ pending' = r.pend
                /\ lastPts' = IF r.cbs = <<>> THEN lastPts ELSE r.cbs[Len(r.cbs)].pts
                /\ call' = [NoCall EXCEPT !.op = "encode", !.ret = r.ret,
                                          !.len = length, !.cbs = r.cbs, !.ev = r.ev,
                                          !.held = r.held]
         /\ fed' = ms
    /\ UNCHANGED <<handle, rtrace, reported, ub, alive, lay>>

\* setBitrate: ffmpeg_ram_set_bitrate on a live session.
SetBitrate ==
    /\ handle = "live"
    /\ \E bitrate \in SetBitRates :
         LET r == set_bitrate(enc, bitrate)
         IN  /\ enc' = r.e
             /\ call' = [NoCall EXCEPT !.op = "set_bitrate", !.ret = r.ret]
    /\ UNCHANGED <<handle, rtrace, reported, pending, fed, lastPts, ub, alive, lay>>

\* destroySession: ffmpeg_ram_free_encoder on a live session. The object is
\* deleted; the caller's copy of the pointer is not changed (line 469 nulls
\* the parameter only). The engine's queue goes with the engine context, and
\* the record of what the session was fed and delivered ends with it.
DestroySession ==
    /\ handle = "live"
    /\ \E f \in {free_encoder(enc, rtrace)} :
           /\ enc' = f.e
           /\ rtrace' = Rel(f.tr, "session")
    /\ handle' = "dangling"
    /\ call' = [NoCall EXCEPT !.op = "free"]
    /\ pending' = <<>>
    /\ fed' = -1
    /\ lastPts' = -1
    /\ UNCHANGED <<reported, ub, alive, lay>>

\* ffmpeg_ram_free_encoder(NULL) returns at once.
DestroyNull ==
    /\ handle = "null"
    /\ call' = [NoCall EXCEPT !.op = "free"]
    /\ UNCHANGED <<handle, enc, rtrace, reported, pending, fed, lastPts, ub, alive, lay>>

\* The entry points called with a pointer to a deleted object: they read (and
\* free_encoder and delete release) the object again. What the build makes
\* of that is undefined, and depends on what the allocator and the caller
\* have done with the freed block:
\*  - the process is killed inside the call (a fault on the stale frame_ or
\*    c_, an abort of the allocator): the call does not return, call.ret
\*    means nothing and no further call is made;
\*  - the freed block still reads as the object free_encoder left: encode
\*    runs on it, makes its engine calls with whatever results the engine
\*    gives for the stale pointers, and returns what encode returns; the
\*    engine context is gone, and its queue with it. What the call writes
\*    to the freed block is not tracked: the next call finds the block in
\*    one of the conditions listed here again (the timestamp matters only
\*    to the callbacks);
\*  - the block holds other data: fill_frame finds no format it knows in
\*    the stale frame and fails whatever the length, or encode and
\*    set_bitrate return any of the values they can return;
\*  - ffmpeg_ram_free_encoder finds every member null, returns, and has
\*    deleted the object once more (call.deleted), however often it was
\*    deleted before; rtrace keeps the events of the object's life, up to
\*    the delete that ended it.
UseAfterDestroy ==
    /\ handle = "dangling"
    /\ alive
    /\ ub' = TRUE
    /\ \/ \E op \in {"encode", "set_bitrate", "free"} :
            /\ call' = [NoCall EXCEPT !.op = op]
            /\ alive' = FALSE
            /\ UNCHANGED rtrace
       \/ /\ \E eo \in {x \in EncodeEngine : x.k <= 1},
                length \in Lengths(reported.length) :
               \E ms \in (IF eo.k > 0 THEN Timestamps ELSE {0}) :
                 \E r \in {encode(enc, length, ms, eo, <<>>)} :
                      call' = [NoCall EXCEPT !.op = "encode", !.ret = r.ret,
                                             !.len = length, !.cbs = r.cbs,
                                             !.ev = r.ev, !.held = r.held]
          /\ UNCHANGED <<rtrace, alive>>
       \/ /\ \E length \in Lengths(reported.length) :
               call' = [NoCall EXCEPT !.op = "encode", !.ret = -1, !.len = length,
                                      !.ev = <<<<"make_writable", 0>>,
                                               <<"fill_frame", -1>>>>]
          /\ UNCHANGED <<rtrace, alive>>
       \/ \E ret \in {0, -1} :
            /\ call' = [NoCall EXCEPT !.op = "encode", !.ret = ret]
            /\ UNCHANGED <<rtrace, alive>>
       \/ \E ret \in {0, -1} :
            /\ call' = [NoCall EXCEPT !.op = "set_bitrate", !.ret = ret]
            /\ UNCHANGED <<rtrace, alive>>
       \/ /\ call' = [NoCall EXCEPT !.op = "free", !.deleted = TRUE]
          /\ UNCHANGED <<rtrace, alive>>
    /\ UNCHANGED <<handle, enc, reported, pending, fed, lastPts, lay>>

Next ==
    \/ CreateSession
    \/ Encode
    \/ SetBitrate
    \/ DestroySession
    \/ DestroyNull
    \/ UseAfterDestroy

Spec == Init /\ [][Next]_vars

\* One call of the exported layout function.
ComputeLayout ==
    \E pix_fmt \in PixFmts, height \in Heights, out \in LayoutOut :
      \E eng \in LayoutEngine(pix_fmt) :
        LET r == ffmpeg_ram_get_linesize_offset_length(pix_fmt, height, eng, out)
        IN  /\ lay' = [op |-> "layout", pix_fmt |-> pix_fmt, height |-> height,
                       eng |-> eng, before |-> out, ret |-> r.ret, after |-> r.out]
            /\ UNCHANGED sessVars

NextLayout == ComputeLayout

SpecLayout == Init /\ [][NextLayout]_vars

\* ------------------------------------------------------------ properties
Supported == {"YUV420P", "NV12"}
Resources ==
    {"session", "c_", "hw_device_ctx_", "hw_frames_ref", "c_hw_frames_ctx",
     "hw_frame_", "hw_frame_buf", "frame_", "frame_buf", "pkt_"}
HasEvent(ev) == \E i \in DOMAIN call.ev : call.ev[i] = ev
\* The engine accepted the frame and its first receive call returned r.
FirstReceive(r) ==
    \E i \in DOMAIN call.ev :
      /\ call.ev[i] = <<"send_frame", 0>>
      /\ i + 1 \in DOMAIN call.ev
      /\ call.ev[i + 1] = <<"receive_packet", r>>

\* C1: encode on a live session with a buffer shorter than the total length
\* the layout computation reports returns a negative code and makes no
\* callback.
C1_ShortBufferRejected ==
    (handle = "live" /\ call.op = "encode" /\ call.len < reported.length)
      => (call.ret < 0 /\ call.cbs = <<>>)

\* C2 as stated: when the engine accepts the frame and its first receive
\* call reports EAGAIN, encode returns 0 and makes no callback.
C2_NotReadyIsSuccess ==
    (handle = "live" /\ call.op = "encode" /\ FirstReceive(AVERROR_EAGAIN))
      => (call.ret = 0 /\ call.cbs = <<>>)

\* C2 as amended: when the engine accepts the frame and its first receive
\* call reports EAGAIN, encode returns -1 and makes no callback.
C2_NotReadyIsFailure ==
    (handle = "live" /\ call.op = "encode" /\ FirstReceive(AVERROR_EAGAIN))
      => (call.ret = -1 /\ call.cbs = <<>>)

C2_Witness ==
    /\ handle = "live" /\ call.op = "encode" /\ FirstReceive(AVERROR_EAGAIN)
    /\ pending # <<>>

\* C3: with strictly increasing timestamps, the first packet a session
\* delivers has pts 0, and every later pts is non-negative and not smaller
\* than the pts delivered before it.
PtsOrdered(prev, cbs) ==
    /\ prev = -1 => cbs[1].pts = 0
    /\ cbs[1].pts >= prev
    /\ \A i \in DOMAIN cbs : cbs[i].pts >= 0
    /\ \A i \in DOMAIN cbs : i > 1 => cbs[i].pts >= cbs[i - 1].pts
C3_PtsOrder ==
    [][(handle = "live" /\ call'.op = "encode" /\ call'.cbs # <<>>)
         => PtsOrdered(lastPts, call'.cbs)]_vars

C3_Witness ==
    /\ handle = "live" /\ call.op = "encode" /\ Len(call.cbs) > 1
    /\ call.cbs[1].pts > 0
    /\ call.cbs[1].src < fed

\* C4: once destroySession was called on a handle, every further call on
\* it is a no-op or fails: it returns (the process is not killed), encode
\* and setBitrate with a negative code, and no released object is used or
\* released again.
C4_DestroyedHandleSafe ==
    /\ alive
    /\ ~ub
    /\ Count(rtrace, <<"rel", "session">>) <= 1
    /\ ~call.deleted
    /\ (handle = "dangling" /\ call.op \in {"encode", "set_bitrate"}) => call.ret < 0

\* C5: a createSession that fails at any step returns null, and every
\* resource it had acquired has been released, exactly once and after it
\* was acquired.
ReleasedOnce(tr, r) ==
    /\ Count(tr, <<"acq", r>>) <= 1
    /\ Count(tr, <<"rel", r>>) = Count(tr, <<"acq", r>>)
    /\ \A i, j \in DOMAIN tr : (tr[i] = <<"acq", r>> /\ tr[j] = <<"rel", r>>) => i < j
C5_FailedCreateReleasesAll ==
    (call.op = "create" /\ (call.fail # "none" \/ handle # "live"))
      => (handle = "null" /\ \A r \in Resources : ReleasedOnce(rtrace, r))

C5_Witness ==
    /\ call.op = "create" /\ call.fail = "open2" /\ handle = "null"
    /\ Count(rtrace, <<"rel", "hw_frame_buf">>) = 1
    /\ Count(rtrace, <<"rel", "pkt_">>) = 1

\* C6: setBitrate on a codec family without live bitrate change returns a
\* negative code and changes nothing of the session.
C6_UnsupportedBitrateNoChange ==
    [][(handle = "live" /\ call'.op = "set_bitrate"
          /\ ~find(enc.name_, "nvenc") /\ ~find(enc.name_, "amf"))
         => (call'.ret < 0 /\ enc' = enc /\ handle' = handle
               /\ pending' = pending /\ rtrace' = rtrace /\ reported' = reported)]_vars

C6_Witness ==
    /\ handle = "live" /\ call.op = "set_bitrate" /\ call.ret < 0
    /\ ~find(enc.name_, "nvenc") /\ ~find(enc.name_, "amf")
    /\ enc.first_ms_ > 0

\* C7: when the engine reports an error other than EAGAIN, on the send or on
\* any receive call, encode returns a negative code, whatever was delivered
\* before.
C7_EngineErrorIsFailure ==
    (handle = "live" /\ call.op = "encode"
       /\ \E x \in EngineErrors :
            HasEvent(<<"send_frame", x>>) \/ HasEvent(<<"receive_packet", x>>))
      => call.ret < 0

\* C8: the layout of the two supported formats: offset[0] = stride0*height;
\* planar: offset[1] = offset[0] + stride1*height/2 and
\* length = offset[1] + stride2*height/2; semi-planar:
\* length = offset[0] + stride1*height/2; and for height >= 2 the offsets
\* increase strictly up to the length.
C8_LayoutFormulas ==
    (lay.op = "layout" /\ lay.ret = 0 /\ lay.before.hasOffset /\ lay.before.hasLength)
      => LET st == lay.eng.linesize
             h == lay.height
             off == lay.after.offset
             len == lay.after.length
         IN  /\ lay.pix_fmt \in Supported
             /\ off[1] = st[1] * h
             /\ lay.pix_fmt = "YUV420P" =>
                  /\ off[2] = off[1] + (st[2] * h) \div 2
                  /\ len = off[2] + (st[3] * h) \div 2
                  /\ h >= 2 => (0 < off[1] /\ off[1] < off[2] /\ off[2] < len)
             /\ lay.pix_fmt = "NV12" =>
                  /\ len = off[1] + (st[2] * h) \div 2
                  /\ h >= 2 => (0 < off[1] /\ off[1] < len)

C8_Witness ==
    /\ lay.op = "layout" /\ lay.ret = 0 /\ lay.before.hasOffset /\ lay.before.hasLength
    /\ lay.pix_fmt = "YUV420P" /\ lay.height = MaxHeight
    /\ lay.eng.linesize = <<MaxStride, 1, 1>>

\* C9: the layout computation called with a format other than the two
\* supported ones returns an error code and writes none of its outputs.
C9_UnsupportedFormatNoOutput ==
    (lay.op = "layout" /\ lay.pix_fmt \notin Supported)
      => (lay.ret < 0 /\ lay.after = lay.before)

\* C10: a session is live only when every step of its initialisation
\* succeeded: its engine context is open, its working frame and packet are
\* allocated, and it holds a hardware device and a hardware frame exactly
\* when it is hardware-backed.
C10_LiveSessionInitialised ==
    handle = "live" =>
      LET hw == enc.hw_device_type_ # "NONE"
      IN  /\ call.op = "create" => call.fail = "none"
          /\ enc.pixfmt_ \in Supported
          /\ enc.c_ = "set" /\ enc.c_opened
          /\ enc.frame_ = "set" /\ enc.frame_buf
          /\ enc.pkt_ = "set"
          /\ (enc.hw_device_ctx_ = "set") <=> hw
          /\ (enc.hw_frame_ = "set") <=> hw
          /\ enc.hw_frame_buf <=> hw
          /\ enc.c_hw_frames_ctx <=> hw

C10_Witness ==
    /\ handle = "live" /\ call.op = "encode" /\ call.ret = 0
    /\ enc.hw_device_type_ = "D3D11VA"

\* C11: every packet delivered to the callback carries the pts of the frame
\* it was encoded from: that frame's timestamp less the session's first-seen
\* timestamp, also when the packet is delivered in a later call than the one
\* that passed the frame.
C11_PtsOfSourceFrame ==
    (handle = "live" /\ call.op = "encode")
      => \A i \in DOMAIN call.cbs : call.cbs[i].pts = call.cbs[i].src - enc.first_ms_

\* C12: the first-seen timestamp is latched once, at the first packet the
\* session delivers, and does not change afterwards: an encode call made
\* after a packet was delivered leaves it as it is and hands every packet
\* the call's timestamp less the latched one, also when the first packet was
\* delivered at timestamp 0.
C12_LatchedOnce ==
    [][(handle = "live" /\ lastPts # -1 /\ call'.op = "encode")
         => /\ enc'.first_ms_ = enc.first_ms_
            /\ \A i \in DOMAIN call'.cbs : call'.cbs[i].pts = fed' - enc.first_ms_]_vars

\* C13: an encode call sends one frame; when the engine accepts it, packets
\* are pulled one at a time, each followed by one callback for it before the
\* next pull, in the order the engine holds them (oldest frame first), and
\* the call ends after a receive call returned a negative code; when the
\* engine rejects the frame, no receive call and no callback is made.
SendIndex(ev) ==
    IF \E i \in DOMAIN ev : ev[i][1] = "send_frame"
    THEN CHOOSE i \in DOMAIN ev : ev[i][1] = "send_frame"
    ELSE 0
PumpOrder(ev, cbs) ==
    \A s \in {SendIndex(ev)}, n \in {Len(cbs)} :
        /\ Cardinality({i \in DOMAIN ev : ev[i][1] = "send_frame"}) <= 1
        /\ \A i \in DOMAIN ev : ev[i][1] \in {"receive_packet", "callback"} => (s # 0 /\ i > s)
        /\ s = 0 => n = 0
        /\ (s # 0 /\ ev[s][2] < 0) => (s = Len(ev) /\ n = 0)
        /\ (s # 0 /\ ev[s][2] >= 0) =>
             /\ Len(ev) = s + 2 * n + 2
             /\ \A j \in 1 .. n : /\ ev[s + 2 * j - 1] = <<"receive_packet", 0>>
                                  /\ ev[s + 2 * j] = <<"callback", cbs[j].pts>>
             /\ ev[s + 2 * n + 1][1] = "receive_packet"
             /\ ev[s + 2 * n + 1][2] < 0
             /\ ev[s + 2 * n + 2][1] \notin {"receive_packet", "callback", "send_frame"}
C13_PumpOrder ==
    [][(handle = "live" /\ call'.op = "encode")
         => /\ PumpOrder(call'.ev, call'.cbs)
            /\ \A j \in DOMAIN call'.cbs :
                 call'.cbs[j].src = Append(pending, fed')[j]]_vars

C13_Witness ==
    /\ handle = "live" /\ call.op = "encode" /\ Len(call.cbs) = 2
    /\ call.ev[Len(call.ev) - 1] = <<"receive_packet", AVERROR_EINVAL>>

\* C14: an encode call that fails because the buffer is too short
\* (fill_frame), because the transfer to the hardware frame fails or because
\* the engine rejects the frame returns a negative code, makes no callback
\* and leaves the session as it was before the call: first-seen timestamp,
\* layout offsets, the working frame's plane pointers, every other field,
\* the engine's queue and the handle, so that the next encode call runs as
\* if the failed one had not been made.
EncodeRejected(ev) ==
    \E i \in DOMAIN ev :
      \/ ev[i] = <<"fill_frame", -1>>
      \/ (ev[i][1] \in {"transfer_data", "send_frame"} /\ ev[i][2] < 0)
C14_FailedEncodeNoEffect ==
    [][(handle = "live" /\ call'.op = "encode" /\ EncodeRejected(call'.ev))
         => /\ call'.ret < 0 /\ call'.cbs = <<>>
            /\ enc'.first_ms_ = enc.first_ms_
            /\ enc'.offset_ = enc.offset_
            /\ enc'.frame_data = enc.frame_data
            /\ enc' = enc
            /\ pending' = pending
            /\ handle' = handle]_vars

\* C15: the working frame's plane pointers reference the caller's buffer
\* only while an encode call runs: in every state between two calls (after
\* encode has returned, when the next encode begins, when destroySession is
\* called) the working frame does not point into caller memory.
C15_FrameOffCallerBuffer ==
    enc.frame_data # "caller"

\* C16: destroySession on a live session releases every resource the
\* session holds, each exactly once, the packet buffer first, then the
\* working frame, the hardware frame, the hardware device and the engine
\* context (the reverse of the order init acquired them in); after it the
\* session holds no resource.
Held(tr) == {r \in Resources : Count(tr, <<"acq", r>>) > Count(tr, <<"rel", r>>)}
DestroyOrder == <<"pkt_", "frame_", "hw_frame_", "hw_device_ctx_", "c_">>
IsOrdered(ev) == ev[2] \in Range(DestroyOrder)
IsOrderedAcq(ev) == ev[1] = "acq" /\ IsOrdered(ev)
Reverse(s) == [i \in 1 .. Len(s) |-> s[Len(s) + 1 - i]]
EventNames(tr) == [i \in 1 .. Len(tr) |-> tr[i][2]]
C16_DestroyReleasesInOrder ==
    [][(handle = "live" /\ call'.op = "free")
         => \A done \in {SubSeq(rtrace', Len(rtrace) + 1, Len(rtrace'))},
              held \in {Held(rtrace)} :
              /\ SubSeq(rtrace', 1, Len(rtrace)) = rtrace
              /\ \A i \in DOMAIN done : done[i][1] = "rel"
              /\ {done[i][2] : i \in DOMAIN done} = held
              /\ Len(done) = Cardinality(held)
              /\ EventNames(SelectSeq(done, IsOrdered))
                   = SelectSeq(DestroyOrder, LAMBDA r : r \in held)
              /\ EventNames(SelectSeq(rtrace, IsOrderedAcq))
                   = Reverse(SelectSeq(DestroyOrder, LAMBDA r : r \in held))
              /\ Held(rtrace') = {}
              /\ enc'.pkt_ = "NULL" /\ enc'.frame_ = "NULL" /\ enc'.hw_frame_ = "NULL"
              /\ enc'.hw_device_ctx_ = "NULL" /\ enc'.c_ = "NULL"
              /\ ~enc'.frame_buf /\ ~enc'.hw_frame_buf /\ ~enc'.c_hw_frames_ctx
              /\ ~enc'.pkt_data]_vars

C16_Witness ==
    /\ handle = "dangling" /\ call.op = "free" /\ ~ub
    /\ Count(rtrace, <<"rel", "hw_frame_">>) = 1
    /\ Count(rtrace, <<"rel", "pkt_">>) = 1
    /\ Count(rtrace, <<"rel", "session">>) = 1

\* C17: a hardware-backed createSession opens the device, allocates and
\* initialises the frame pool (of initial size 1), binds the pool to the
\* engine context, acquires one hardware frame and only then opens the
\* engine; the engine is never opened without a bound pool, and a session
\* acquires exactly one hardware frame, whatever calls follow.
HwCreateOrder ==
    <<<<"acq", "hw_device_ctx_">>, <<"acq", "hw_frames_ref">>,
      <<"init", "hw_frames_ref">>, <<"acq", "c_hw_frames_ctx">>,
      <<"acq", "hw_frame_">>, <<"acq", "hw_frame_buf">>, <<"open", "c_">>>>
IsHwCreateEvent(ev) == ev \in Range(HwCreateOrder)
\* Each event of HwCreateOrder is in tr once, and they are in this order.
HwCreateInOrder(tr) == SelectSeq(tr, IsHwCreateEvent) = HwCreateOrder
C17_HwCreateOrder ==
    /\ call.fail \in Range(HwSteps) => Count(rtrace, <<"open", "c_">>) = 0
    /\ (Count(rtrace, <<"open", "c_">>) > 0
          /\ Count(rtrace, <<"acq", "hw_device_ctx_">>) > 0)
         => HwCreateInOrder(rtrace)
    /\ (handle = "live" /\ enc.hw_device_type_ # "NONE")
         => /\ HwCreateInOrder(rtrace)
            /\ enc.c_opened /\ enc.c_hw_frames_ctx
            /\ enc.c_pool_size = initial_pool_size
            /\ enc.hw_frame_ = "set" /\ enc.hw_frame_buf

C17_Witness ==
    /\ handle = "live" /\ enc.hw_device_type_ # "NONE"
    /\ call.op = "encode" /\ Len(call.cbs) = 2 /\ enc.first_ms_ > 0
    /\ Count(rtrace, <<"acq", "hw_frame_buf">>) = 1

\* C18 as stated: the storage of each pulled packet is released after its
\* callback and before the next packet is pulled, so that every
\* avcodec_receive_packet call is made with a packet buffer that holds no
\* payload, and the packet buffer holds no payload whenever encode returns.
C18_ReleasedAfterEachCallback ==
    (handle = "live" /\ call.op = "encode")
      => /\ ~enc.pkt_data
         /\ \A j \in DOMAIN call.held : ~call.held[j]

\* C18 as amended: the session releases the packet buffer once in every
\* encode call that reaches the drain loop, after the receive call that
\* ended the loop; the first receive call of an encode call is made with an
\* empty packet buffer, every later one with the buffer still holding the
\* packet handed to the callback just before; a call that ends before the
\* drain loop makes no receive call and releases nothing; and the packet
\* buffer holds no payload whenever encode returns.
C18_ReleasedOnceAtExit ==
    (handle = "live" /\ call.op = "encode")
      => /\ ~enc.pkt_data
         /\ Len(call.held) = Cardinality({i \in DOMAIN call.ev :
                                             call.ev[i][1] = "receive_packet"})
         /\ \A j \in DOMAIN call.held : call.held[j] <=> j > 1
         /\ \A i \in DOMAIN call.ev :
              call.ev[i][1] = "callback"
                => (i + 1 \in DOMAIN call.ev /\ call.ev[i + 1][1] = "receive_packet")
         /\ \A i \in DOMAIN call.ev :
              call.ev[i][1] = "packet_unref"
                => (i = Len(call.ev) /\ call.ev[i - 1][1] = "receive_packet"
                      /\ call.ev[i - 1][2] < 0)
         /\ Count(call.ev, <<"packet_unref", 0>>)
              = (IF HasEvent(<<"send_frame", 0>>) THEN 1 ELSE 0)
         /\ ~HasEvent(<<"send_frame", 0>>) => call.held = <<>>

C18_Witness ==
    /\ handle = "live" /\ call.op = "encode" /\ Len(call.cbs) = 2
    /\ call.ev[Len(call.ev)] = <<"packet_unref", 0>>
    /\ call.ev[Len(call.ev) - 1] = <<"receive_packet", AVERROR_EAGAIN>>
    /\ ~enc.pkt_data

\* C19: an encode call on a live session that reaches avcodec_send_frame
\* returns 0 exactly when it made at least one callback; when the engine
\* accepted the frame and handed out no packet it returns -1, whether the
\* drain loop ended on EAGAIN or on an error.
C19_ZeroIffCallback ==
    (handle = "live" /\ call.op = "encode"
       /\ \E i \in DOMAIN call.ev : call.ev[i][1] = "send_frame")
      => /\ call.ret = 0 <=> call.cbs # <<>>
         /\ (HasEvent(<<"send_frame", 0>>) /\ call.cbs = <<>>) => call.ret = -1

C19_Witness ==
    /\ handle = "live" /\ call.op = "encode" /\ call.ret = -1 /\ call.cbs = <<>>
    /\ FirstReceive(AVERROR_EINVAL)
    /\ pending # <<>>
====
